---- MODULE Spec2Model ----
\* CloudPolicyClientRegistrationHelper
\* (chrome/browser/policy/cloud/cloud_policy_client_registration_helper.cc),
\* non-Android build: one helper object, the shared CloudPolicyClient it
\* observes, and the two network operations its sub-helpers own.
EXTENDS Naturals, Sequences, FiniteSets

\* ---------------------------------------------------------------- bounds
\* Access tokens are strings; a token is modelled by its characters (all the
\* same letter), so what matters is its length and std::string::empty().
MaxTokenLen == 2
\* Number of DeviceRegisterRequest::Type values the constructor may be given.
NumRegistrationTypes == 2
\* OnPolicyFetched notifications counted before the count saturates.
MaxPolicyFetched == 2
\* Start calls made on one helper before the model stops making more.
MaxStarts == 2

Tokens == UNION {[1..n -> {1}] : n \in 0..MaxTokenLen}
EmptyToken == << >>
ProviderTokens == Tokens \ {EmptyToken}
RegistrationTypes == 1..NumRegistrationTypes

NULL == "NULL"
TheClient == "client"
Self == "helper"
NoCallback == "null"
OnDone == "onDone"

VARIABLES
    \* CloudPolicyClientRegistrationHelper
    alive,                      \* constructed and not yet destructed
    client_,                    \* CloudPolicyClient* : TheClient or NULL
    callback_,                  \* base::Closure : NoCallback or OnDone
    should_force_load_policy_,
    registration_type_,
    token_service_helper_,      \* scoped_ptr non-null
    login_token_helper_,        \* scoped_ptr non-null
    user_info_fetcher_,         \* scoped_ptr non-null
    oauth_access_token_,
    \* the shared CloudPolicyClient
    is_registered,
    observers,
    registerCalls,              \* the Register calls it received, in order
    registration_pending,       \* a Register call not yet answered
    state_notify_pending,       \* a registration-state change not yet announced
    \* network operations started by the sub-helpers
    serviceRequest,             \* token-service request in flight
    loginRequest,               \* login-token fetch in flight
    userInfoRequest,            \* userinfo fetch in flight
    \* observation
    callbackRuns,               \* number of callback_.Run()
    completedCalls,             \* number of entries into RequestCompleted
    fetchedTokens,              \* arguments of OnTokenFetched, in order
    userInfoResults,            \* outcomes handed to OnGetUserInfo*, in order
    tokenFetchStarts,           \* number of FetchAccessToken calls
    startCalls,                 \* number of Start entry-point calls
    lookupStarts,               \* number of UserInfoFetcher::Start calls
    startedWith,                \* entry point used
    policyFetchedSeen,          \* OnPolicyFetched notifications handled
    crashed                     \* the process died on a NULL dereference

helperVars == <<alive, client_, callback_, should_force_load_policy_,
                registration_type_, token_service_helper_, login_token_helper_,
                user_info_fetcher_, oauth_access_token_>>
clientVars == <<is_registered, observers, registerCalls, registration_pending,
                state_notify_pending>>
netVars == <<serviceRequest, loginRequest, userInfoRequest>>
obsVars == <<callbackRuns, completedCalls, fetchedTokens, userInfoResults,
             tokenFetchStarts, startCalls, lookupStarts, startedWith,
             policyFetchedSeen, crashed>>
vars == <<helperVars, clientVars, netVars, obsVars>>

\* A token fetch of either kind is in flight.
tokenRequest == serviceRequest \/ loginRequest

\* ------------------------------------------------------------ constructor
\* lines 176-187: client_ and context_ are non-null, the two flags are the
\* caller's; every scoped_ptr member starts null, callback_ is null.
Init ==
    /\ alive = TRUE
    /\ client_ = TheClient
    /\ callback_ = NoCallback
    /\ should_force_load_policy_ \in BOOLEAN
    /\ registration_type_ \in RegistrationTypes
    /\ token_service_helper_ = FALSE
    /\ login_token_helper_ = FALSE
    /\ user_info_fetcher_ = FALSE
    /\ oauth_access_token_ = EmptyToken
    /\ is_registered = FALSE
    /\ observers = {}
    /\ registerCalls = << >>
    /\ registration_pending = FALSE
    /\ state_notify_pending = FALSE
    /\ serviceRequest = FALSE
    /\ loginRequest = FALSE
    /\ userInfoRequest = FALSE
    /\ callbackRuns = 0
    /\ completedCalls = 0
    /\ fetchedTokens = << >>
    /\ userInfoResults = << >>
    /\ tokenFetchStarts = 0
    /\ startCalls = 0
    /\ lookupStarts = 0
    /\ startedWith = "none"
    /\ policyFetchedSeen = 0
    /\ crashed = FALSE

\* ------------------------------------------------------------- variations
\* RequestCompleted without the "if (client_)" guard.
RequestCompleted_Unguarded ==
    /\ completedCalls' = completedCalls + 1
    /\ observers' = observers \ {Self}
    /\ client_' = NULL
    /\ callbackRuns' = callbackRuns + 1

\* RequestCompleted without the RemoveObserver call.
RequestCompleted_KeepsObserver ==
    /\ completedCalls' = completedCalls + 1
    /\ IF client_ # NULL
       THEN /\ observers' = observers
            /\ client_' = NULL
            /\ callbackRuns' = callbackRuns + 1
       ELSE UNCHANGED <<observers, client_, callbackRuns>>

\* -------------------------------------------------------- RequestCompleted
\* lines 311-318. Changes client_, observers, callbackRuns, completedCalls.
RequestCompleted ==
    /\ completedCalls' = completedCalls + 1
    /\ IF client_ # NULL
       THEN /\ observers' = observers \ {Self}
            /\ client_' = NULL
            /\ callbackRuns' = callbackRuns + 1
       ELSE UNCHANGED <<observers, client_, callbackRuns>>

NotCompleted ==
    UNCHANGED <<observers, client_, callbackRuns, completedCalls>>

\* ------------------------------------------------------ Start entry points
\* The DCHECKs and NOTREACHED of the file are compiled out (release build),
\* so nothing in the entry points tests whether an attempt was started before
\* or whether the client is registered. The model stops making Start calls
\* after MaxStarts of them.
StartPrecondition ==
    /\ ~crashed
    /\ alive
    /\ startCalls < MaxStarts

\* lines 207-208 with client_ == NULL (a Start call after the attempt was
\* completed): callback_ is assigned, then AddObserver is called through the
\* null pointer and the process dies.
StartOnClearedClient ==
    /\ callback_' = OnDone
    /\ crashed' = TRUE
    /\ startCalls' = startCalls + 1
    /\ UNCHANGED <<alive, client_, should_force_load_policy_, registration_type_,
                   token_service_helper_, login_token_helper_,
                   user_info_fetcher_, oauth_access_token_, clientVars, netVars,
                   callbackRuns, completedCalls, fetchedTokens, userInfoResults,
                   tokenFetchStarts, lookupStarts, startedWith,
                   policyFetchedSeen>>

\* lines 197-216. A helper the member already holds is destroyed by reset()
\* and its request with it; the new helper's request is the one in flight.
StartRegistration ==
    /\ StartPrecondition
    /\ IF client_ = NULL
       THEN StartOnClearedClient
       ELSE /\ callback_' = OnDone
            /\ observers' = observers \cup {Self}
            /\ token_service_helper_' = TRUE
            /\ serviceRequest' = TRUE
            /\ tokenFetchStarts' = tokenFetchStarts + 1
            /\ startCalls' = startCalls + 1
            /\ startedWith' = "service"
            /\ UNCHANGED <<alive, client_, should_force_load_policy_,
                           registration_type_, login_token_helper_,
                           user_info_fetcher_, oauth_access_token_,
                           is_registered, registerCalls, registration_pending,
                           state_notify_pending, loginRequest, userInfoRequest,
                           callbackRuns, completedCalls, fetchedTokens,
                           userInfoResults, lookupStarts, policyFetchedSeen,
                           crashed>>

\* lines 219-234
StartRegistrationWithLoginToken ==
    /\ StartPrecondition
    /\ IF client_ = NULL
       THEN StartOnClearedClient
       ELSE /\ callback_' = OnDone
            /\ observers' = observers \cup {Self}
            /\ login_token_helper_' = TRUE
            /\ loginRequest' = TRUE
            /\ tokenFetchStarts' = tokenFetchStarts + 1
            /\ startCalls' = startCalls + 1
            /\ startedWith' = "login"
            /\ UNCHANGED <<alive, client_, should_force_load_policy_,
                           registration_type_, token_service_helper_,
                           user_info_fetcher_, oauth_access_token_,
                           is_registered, registerCalls, registration_pending,
                           state_notify_pending, serviceRequest,
                           userInfoRequest, callbackRuns, completedCalls,
                           fetchedTokens, userInfoResults, lookupStarts,
                           policyFetchedSeen, crashed>>

\* OnTokenFetched without the two reset() calls.
ReleaseTokenHelpers_Skipped ==
    UNCHANGED <<login_token_helper_, token_service_helper_>>

\* OnTokenFetched without the empty-token early return.
TokenIsEmpty_Never(access_token) ==
    FALSE

\* The empty-token test with its sense inverted.
TokenIsEmpty_Inverted(access_token) ==
    Len(access_token) # 0

\* ----------------------------------------------------------- OnTokenFetched
\* lines 239-242: both token helpers are released first.
ReleaseTokenHelpers ==
    /\ login_token_helper_' = FALSE
    /\ token_service_helper_' = FALSE

\* line 244
TokenIsEmpty(access_token) ==
    Len(access_token) = 0

\* lines 237-258. Changes the helper's members, the userinfo request and the
\* observation variables; leaves the token requests to the caller.
OnTokenFetched(access_token) ==
    /\ ReleaseTokenHelpers
    /\ fetchedTokens' = Append(fetchedTokens, access_token)
    /\ IF TokenIsEmpty(access_token)
       THEN /\ RequestCompleted
            /\ UNCHANGED <<oauth_access_token_, user_info_fetcher_,
                           userInfoRequest, lookupStarts>>
       ELSE /\ oauth_access_token_' = access_token
            /\ user_info_fetcher_' = TRUE
            /\ userInfoRequest' = TRUE
            /\ lookupStarts' = lookupStarts + 1
            /\ NotCompleted
    /\ UNCHANGED <<alive, callback_, should_force_load_policy_,
                   registration_type_, is_registered, registerCalls,
                   registration_pending, state_notify_pending, userInfoResults,
                   tokenFetchStarts, startCalls, startedWith, policyFetchedSeen, crashed>>

\* LoginTokenHelper::OnGetTokenFailure handing on a token instead of "".
LoginTokenHelperResult_FailureUnsignalled(success, access_token) ==
    access_token

\* lines 98-111: TokenServiceHelper::OnGetTokenSuccess runs the callback with
\* the token, OnGetTokenFailure with "".
TokenServiceHelperResult(success, access_token) ==
    IF success THEN access_token ELSE EmptyToken

\* lines 163-172: LoginTokenHelper, the same two handlers.
LoginTokenHelperResult(success, access_token) ==
    IF success THEN access_token ELSE EmptyToken

\* The token service answers the request token_service_helper_ holds.
TokenServiceAnswers ==
    /\ ~crashed
    /\ serviceRequest
    /\ token_service_helper_
    /\ serviceRequest' = FALSE
    /\ loginRequest' = loginRequest
    /\ \E success \in BOOLEAN, access_token \in ProviderTokens :
          OnTokenFetched(TokenServiceHelperResult(success, access_token))

\* The access-token fetcher login_token_helper_ holds answers.
LoginTokenFetcherAnswers ==
    /\ ~crashed
    /\ loginRequest
    /\ login_token_helper_
    /\ loginRequest' = FALSE
    /\ serviceRequest' = serviceRequest
    /\ \E success \in BOOLEAN, access_token \in ProviderTokens :
          OnTokenFetched(LoginTokenHelperResult(success, access_token))

\* The network call ends after its helper (and with it the request object)
\* was destroyed: nothing is delivered.
ServiceAnswerDiscarded ==
    /\ ~crashed
    /\ serviceRequest
    /\ ~token_service_helper_
    /\ serviceRequest' = FALSE
    /\ UNCHANGED <<helperVars, clientVars, loginRequest, userInfoRequest,
                   obsVars>>

\* The same for the fetch of a destroyed LoginTokenHelper.
LoginAnswerDiscarded ==
    /\ ~crashed
    /\ loginRequest
    /\ ~login_token_helper_
    /\ loginRequest' = FALSE
    /\ UNCHANGED <<helperVars, clientVars, serviceRequest, userInfoRequest,
                   obsVars>>

\* OnGetUserInfoFailure without the RequestCompleted call.
OnGetUserInfoFailure_NoCompletion ==
    /\ user_info_fetcher_' = FALSE
    /\ userInfoResults' = Append(userInfoResults, "failure")
    /\ NotCompleted
    /\ UNCHANGED <<alive, callback_, should_force_load_policy_,
                   registration_type_, token_service_helper_,
                   login_token_helper_, oauth_access_token_, is_registered,
                   registerCalls, registration_pending, state_notify_pending,
                   fetchedTokens, tokenFetchStarts, startCalls, lookupStarts, startedWith,
                   policyFetchedSeen, crashed>>

\* The gate without the hosted-domain test.
PassesDomainGate_Always(has_hd) ==
    TRUE

\* The gate without the should_force_load_policy_ test.
PassesDomainGate_IgnoresForce(has_hd) ==
    has_hd

\* OnGetUserInfoSuccess without the is_registered() check.
ClientAlreadyRegistered_Never ==
    FALSE

\* Register called with the empty string it passes as its third argument in
\* the place of the cached token.
CallRegister_SwappedStrings ==
    /\ registerCalls' = Append(registerCalls,
                               [type |-> registration_type_,
                                token |-> EmptyToken])
    /\ registration_pending' = TRUE

\* ------------------------------------------------------ UserInfoFetcher end
\* lines 260-265
OnGetUserInfoFailure ==
    /\ user_info_fetcher_' = FALSE
    /\ userInfoResults' = Append(userInfoResults, "failure")
    /\ RequestCompleted
    /\ UNCHANGED <<alive, callback_, should_force_load_policy_,
                   registration_type_, token_service_helper_,
                   login_token_helper_, oauth_access_token_, is_registered,
                   registerCalls, registration_pending, state_notify_pending,
                   fetchedTokens, tokenFetchStarts, startCalls, lookupStarts, startedWith,
                   policyFetchedSeen, crashed>>

\* line 270: the hosted-domain gate; has_hd is data->HasKey("hd").
PassesDomainGate(has_hd) ==
    ~(~has_hd /\ ~should_force_load_policy_)

\* line 278: the check made before Register.
ClientAlreadyRegistered ==
    is_registered

\* lines 287-288: CloudPolicyClient::Register receives the registration type
\* and the cached token and starts a registration request.
CallRegister ==
    /\ registerCalls' = Append(registerCalls,
                               [type |-> registration_type_,
                                token |-> oauth_access_token_])
    /\ registration_pending' = TRUE

\* lines 267-289. With client_ == NULL (the attempt was completed while the
\* lookup was in flight) line 278 dereferences a null pointer: the process
\* dies there, or the read yields "registered" and RequestCompleted returns
\* without effect; a read of "not registered" dies in Register at line 287.
OnGetUserInfoSuccess(has_hd) ==
    /\ user_info_fetcher_' = FALSE
    /\ userInfoResults' = Append(userInfoResults, IF has_hd THEN "hd" ELSE "nohd")
    /\ IF ~PassesDomainGate(has_hd)
       THEN /\ RequestCompleted
            /\ UNCHANGED <<registerCalls, registration_pending, crashed>>
       ELSE IF client_ = NULL
       THEN \E outcome \in {"dies", "reads_registered"} :
               IF outcome = "dies"
               THEN /\ crashed' = TRUE
                    /\ NotCompleted
                    /\ UNCHANGED <<registerCalls, registration_pending>>
               ELSE /\ RequestCompleted
                    /\ UNCHANGED <<registerCalls, registration_pending, crashed>>
       ELSE IF ClientAlreadyRegistered
       THEN /\ RequestCompleted
            /\ UNCHANGED <<registerCalls, registration_pending, crashed>>
       ELSE /\ CallRegister
            /\ NotCompleted
            /\ UNCHANGED crashed
    /\ UNCHANGED <<alive, callback_, should_force_load_policy_,
                   registration_type_, token_service_helper_,
                   login_token_helper_, oauth_access_token_, is_registered,
                   state_notify_pending, fetchedTokens, tokenFetchStarts, startCalls,
                   lookupStarts, startedWith, policyFetchedSeen>>

\* A failed lookup that is issued again instead of ending the attempt.
UserInfoFails_Retried ==
    /\ ~crashed
    /\ userInfoRequest
    /\ user_info_fetcher_
    /\ userInfoResults' = Append(userInfoResults, "failure")
    /\ lookupStarts' = lookupStarts + 1
    /\ NotCompleted
    /\ UNCHANGED <<alive, callback_, should_force_load_policy_,
                   registration_type_, token_service_helper_,
                   login_token_helper_, user_info_fetcher_,
                   oauth_access_token_, is_registered, registerCalls,
                   registration_pending, state_notify_pending, netVars,
                   fetchedTokens, tokenFetchStarts, startCalls, startedWith,
                   policyFetchedSeen, crashed>>

\* The userinfo request user_info_fetcher_ holds fails.
UserInfoFails ==
    /\ ~crashed
    /\ userInfoRequest
    /\ user_info_fetcher_
    /\ userInfoRequest' = FALSE
    /\ UNCHANGED <<serviceRequest, loginRequest>>
    /\ OnGetUserInfoFailure

\* The userinfo request user_info_fetcher_ holds succeeds.
UserInfoSucceeds ==
    /\ ~crashed
    /\ userInfoRequest
    /\ user_info_fetcher_
    /\ userInfoRequest' = FALSE
    /\ UNCHANGED <<serviceRequest, loginRequest>>
    /\ \E has_hd \in BOOLEAN : OnGetUserInfoSuccess(has_hd)

\* The network call ends after its fetcher was destroyed.
UserInfoAnswerDiscarded ==
    /\ ~crashed
    /\ userInfoRequest
    /\ ~user_info_fetcher_
    /\ userInfoRequest' = FALSE
    /\ UNCHANGED <<helperVars, clientVars, serviceRequest, loginRequest,
                   obsVars>>

\* OnPolicyFetched treated like the other two notifications.
OnPolicyFetched_Completes ==
    /\ policyFetchedSeen' =
          IF policyFetchedSeen < MaxPolicyFetched
          THEN policyFetchedSeen + 1 ELSE policyFetchedSeen
    /\ RequestCompleted

\* OnRegistrationStateChanged acting only once Register has been called.
OnRegistrationStateChanged_OnlyAfterRegister ==
    IF registerCalls = << >> THEN NotCompleted ELSE RequestCompleted

\* -------------------------------------------- CloudPolicyClient::Observer
\* lines 291-294: ignored.
OnPolicyFetched ==
    /\ policyFetchedSeen' =
          IF policyFetchedSeen < MaxPolicyFetched
          THEN policyFetchedSeen + 1 ELSE policyFetchedSeen
    /\ NotCompleted

\* lines 296-302
OnRegistrationStateChanged ==
    RequestCompleted

\* lines 304-309
OnClientError ==
    RequestCompleted

\* The destructor without the RemoveObserver call.
DetachOnDestruction_Skipped ==
    observers' = observers

\* ------------------------------------------------------------- destructor
\* lines 192-193
DetachOnDestruction ==
    IF client_ # NULL
    THEN observers' = observers \ {Self}
    ELSE observers' = observers

\* The scoped_ptr members die with the object, and with each helper the
\* request object it holds.
ReleaseMembers ==
    /\ token_service_helper_' = FALSE
    /\ login_token_helper_' = FALSE
    /\ user_info_fetcher_' = FALSE

\* lines 189-194
Destructor ==
    /\ ~crashed
    /\ alive
    /\ alive' = FALSE
    /\ DetachOnDestruction
    /\ ReleaseMembers
    /\ UNCHANGED <<client_, callback_, should_force_load_policy_,
                   registration_type_, oauth_access_token_, is_registered,
                   registerCalls, registration_pending, state_notify_pending,
                   netVars, obsVars>>

\* A client that announces a registration which did not take place.
RegisterSucceeds_NotRegistered ==
    /\ ~crashed
    /\ registration_pending
    /\ registration_pending' = FALSE
    /\ is_registered' = is_registered
    /\ state_notify_pending' = TRUE
    /\ UNCHANGED <<helperVars, observers, registerCalls, netVars, obsVars>>

\* ------------------------------------------- the shared CloudPolicyClient
\* What the client's notifications leave alone in the helper.
ObserverFrame ==
    UNCHANGED <<alive, callback_, should_force_load_policy_,
                registration_type_, token_service_helper_, login_token_helper_,
                user_info_fetcher_, oauth_access_token_, registerCalls, netVars,
                fetchedTokens, userInfoResults, tokenFetchStarts, startCalls, lookupStarts,
                startedWith, crashed>>

\* The registration request started by Register succeeds.
RegisterSucceeds ==
    /\ ~crashed
    /\ registration_pending
    /\ registration_pending' = FALSE
    /\ is_registered' = TRUE
    /\ state_notify_pending' = TRUE
    /\ UNCHANGED <<helperVars, observers, registerCalls, netVars, obsVars>>

\* Another user of the client registers it.
ExternalRegister ==
    /\ ~crashed
    /\ ~is_registered
    /\ ~registration_pending
    /\ is_registered' = TRUE
    /\ state_notify_pending' = TRUE
    /\ UNCHANGED <<helperVars, observers, registerCalls, registration_pending,
                   netVars, obsVars>>

\* The client announces its registration-state change to its observers.
NotifyRegistrationStateChanged ==
    /\ ~crashed
    /\ state_notify_pending
    /\ state_notify_pending' = FALSE
    /\ IF Self \in observers
       THEN OnRegistrationStateChanged
       ELSE NotCompleted
    /\ UNCHANGED <<is_registered, registration_pending, policyFetchedSeen>>
    /\ ObserverFrame

\* A request of the client fails (the registration request, if one is
\* pending, or a request of another user of the client).
NotifyClientError ==
    /\ ~crashed
    /\ registration_pending \/ Self \in observers
    /\ registration_pending' = FALSE
    /\ IF Self \in observers
       THEN OnClientError
       ELSE NotCompleted
    /\ UNCHANGED <<is_registered, state_notify_pending, policyFetchedSeen>>
    /\ ObserverFrame

\* The client announces a fetched policy.
NotifyPolicyFetched ==
    /\ ~crashed
    /\ Self \in observers
    /\ OnPolicyFetched
    /\ UNCHANGED <<is_registered, registration_pending, state_notify_pending>>
    /\ ObserverFrame

\* ---------------------------------------------------------- specification
Next ==
    \/ StartRegistration
    \/ StartRegistrationWithLoginToken
    \/ TokenServiceAnswers
    \/ LoginTokenFetcherAnswers
    \/ ServiceAnswerDiscarded
    \/ LoginAnswerDiscarded
    \/ UserInfoFails
    \/ UserInfoSucceeds
    \/ UserInfoAnswerDiscarded
    \/ RegisterSucceeds
    \/ ExternalRegister
    \/ NotifyRegistrationStateChanged
    \/ NotifyClientError
    \/ NotifyPolicyFetched
    \/ Destructor

Spec == Init /\ [][Next]_vars

\* Every started asynchronous step delivers its callback, and the client
\* answers a Register call and announces state changes.
Fairness ==
    /\ WF_vars(TokenServiceAnswers)
    /\ WF_vars(LoginTokenFetcherAnswers)
    /\ WF_vars(UserInfoFails \/ UserInfoSucceeds)
    /\ WF_vars(RegisterSucceeds \/ (registration_pending /\ NotifyClientError))
    /\ WF_vars(NotifyRegistrationStateChanged)

FairSpec == Spec /\ Fairness

\* ------------------------------------------------------------- properties
Started == callback_ = OnDone
Completed == Started /\ client_ = NULL

\* The caller's side of the contract: one Start call per helper instance (a
\* helper is not reused for a second attempt). The entry points do not test
\* it; the properties that speak of one attempt are stated for the behaviours
\* that keep it.
SingleAttempt == startCalls <= 1
Results(seq) == {seq[i] : i \in 1..Len(seq)}

\* C1: after one Start call, whatever token results, lookup results and
\* PolicyClient notifications arrive, the completion callback runs at most
\* once; a second entry into RequestCompleted does not run it again.
C1_CallbackAtMostOnce ==
    callbackRuns <= 1

C1_Witness ==
    /\ SingleAttempt
    /\ completedCalls >= 2
    /\ callbackRuns = 1

\* C2: once started, an attempt whose helper is not destroyed and whose
\* asynchronous steps all deliver their callbacks eventually runs the
\* completion callback.
C2_EventuallyCompleted ==
    Started ~> (~alive \/ callbackRuns >= 1)

C2_Witness ==
    /\ SingleAttempt
    /\ alive
    /\ callbackRuns = 1
    /\ Len(registerCalls) = 1
    /\ is_registered
    /\ userInfoResults = <<"nohd">>
    /\ should_force_load_policy_

\* C3: destruction does not run the completion callback, and after it no
\* token, lookup or PolicyClient notification reaches the helper: its
\* members, its observer membership and the callback count stay as they are.
C3_NothingAfterDestruction ==
    [][/\ ~alive' => callbackRuns' = callbackRuns
       /\ ~alive => UNCHANGED <<helperVars, observers, registerCalls,
                                callbackRuns, completedCalls, fetchedTokens,
                                userInfoResults, lookupStarts,
                                policyFetchedSeen>>]_vars

C3_Witness ==
    /\ SingleAttempt
    /\ ~alive
    /\ Started
    /\ callbackRuns = 0
    /\ ~tokenRequest
    /\ fetchedTokens = << >>

\* C4: once the attempt has completed or the helper is destroyed, the helper
\* is not among the client's observers; it is one only between Start and
\* completion or destruction.
C4_ObserverCleanup ==
    /\ (callbackRuns >= 1 \/ ~alive) => Self \notin observers
    /\ Self \in observers => (Started /\ alive /\ callbackRuns = 0)

C4_Witness ==
    /\ SingleAttempt
    /\ alive
    /\ callbackRuns = 1
    /\ userInfoResults = <<"failure">>
    /\ Self \notin observers

\* C5: in an attempt started once, after the token callback delivered the
\* empty string, no userinfo
\* lookup has been created or started, Register has not been called, and the
\* attempt is completed.
C5_EmptyTokenShortCircuit ==
    (SingleAttempt /\ EmptyToken \in Results(fetchedTokens)) =>
        /\ lookupStarts = 0
        /\ ~user_info_fetcher_
        /\ ~userInfoRequest
        /\ registerCalls = << >>
        /\ Completed
        /\ callbackRuns = 1

C5_Witness ==
    /\ SingleAttempt
    /\ fetchedTokens = <<EmptyToken>>
    /\ completedCalls = 1
    /\ callbackRuns = 1

\* C6: after a successful lookup without hosted-domain key in an attempt
\* that was started once and does not force policy load, Register has not been called and the
\* attempt is completed.
C6_DomainGateSkips ==
    (/\ SingleAttempt
     /\ "nohd" \in Results(userInfoResults)
     /\ ~should_force_load_policy_) =>
        /\ registerCalls = << >>
        /\ Completed
        /\ callbackRuns = 1

C6_Witness ==
    /\ SingleAttempt
    /\ userInfoResults = <<"nohd">>
    /\ ~should_force_load_policy_
    /\ completedCalls = 1
    /\ callbackRuns = 1

LookupSucceededPastGate(results) ==
    /\ results # << >>
    /\ results[Len(results)] # "failure"
    /\ (should_force_load_policy_ \/ results[Len(results)] = "hd")

\* C7 as stated: whenever the lookup of an attempt succeeds with forced
\* policy load, or with the hosted-domain key present, Register is called.
C7_RegisterWheneverGatePassed ==
    LookupSucceededPastGate(userInfoResults) => Len(registerCalls) >= 1

\* C7 as amended: in the step that handles a successful lookup passing the
\* gate (forced load, or hosted-domain key present), Register is called
\* exactly when the attempt is not yet completed and the client is not
\* registered at that moment; it is called once, and in no other step.
C7_RegisterIffGatePassedAndUnregistered ==
    [][/\ (Len(userInfoResults') > Len(userInfoResults)
             /\ LookupSucceededPastGate(userInfoResults'))
          => ((Len(registerCalls') = Len(registerCalls) + 1)
                <=> (client_ # NULL /\ ~is_registered))
       /\ registerCalls' # registerCalls
          => (/\ Len(userInfoResults') > Len(userInfoResults)
              /\ LookupSucceededPastGate(userInfoResults'))]_vars

C7_Witness ==
    /\ SingleAttempt
    /\ should_force_load_policy_
    /\ userInfoResults = <<"nohd">>
    /\ Len(registerCalls) = 1
    /\ registration_pending
    /\ callbackRuns = 0

\* C8: on a helper started once, at most one of the three sub-helpers exists
\* at any time and at most
\* one of their requests is in flight; once the token callback has run, no
\* token helper is left, whatever token it delivered.
C8_PhaseExclusivity ==
    SingleAttempt =>
        /\ Cardinality({h \in {"service", "login", "userinfo"} :
                          \/ (h = "service" /\ token_service_helper_)
                          \/ (h = "login" /\ login_token_helper_)
                          \/ (h = "userinfo" /\ user_info_fetcher_)}) <= 1
        /\ ~(serviceRequest /\ loginRequest)
        /\ ~(tokenRequest /\ userInfoRequest)
        /\ fetchedTokens # << >>
              => (~token_service_helper_ /\ ~login_token_helper_)
        /\ user_info_fetcher_ => fetchedTokens # << >>

C8_Witness ==
    /\ SingleAttempt
    /\ user_info_fetcher_
    /\ userInfoRequest
    /\ fetchedTokens # << >>
    /\ ~token_service_helper_
    /\ ~login_token_helper_

\* C9: a step in which the helper calls Register starts from a state in
\* which the client is not registered (and the helper still holds it); and
\* the helper's own steps (Start, token and lookup callbacks, destruction)
\* never change the client's registration state, and change its pending
\* registration only by that Register call.
C9_RegisterOnlyWhenUnregistered ==
    [][/\ registerCalls' # registerCalls
          => (/\ ~is_registered
              /\ client_ # NULL
              /\ Len(registerCalls') = Len(registerCalls) + 1
              /\ registration_pending')
       /\ (\/ fetchedTokens' # fetchedTokens
           \/ userInfoResults' # userInfoResults
           \/ startCalls' # startCalls
           \/ alive' # alive)
          => (/\ is_registered' = is_registered
              /\ state_notify_pending' = state_notify_pending
              /\ (registration_pending' # registration_pending
                    => registerCalls' # registerCalls))]_vars

C9_Witness ==
    /\ SingleAttempt
    /\ Len(registerCalls) = 1
    /\ userInfoResults = <<"hd">>
    /\ ~should_force_load_policy_
    /\ is_registered
    /\ callbackRuns = 1

\* C10: once the completion callback has run, no later step of an attempt
\* started once starts a token
\* fetch or a userinfo lookup, creates a sub-helper or calls Register.
C10_CompletedIsTerminal ==
    [][(SingleAttempt' /\ callbackRuns >= 1)
         => (/\ tokenFetchStarts' = tokenFetchStarts
             /\ lookupStarts' = lookupStarts
             /\ (user_info_fetcher_' => user_info_fetcher_)
             /\ (token_service_helper_' => token_service_helper_)
             /\ (login_token_helper_' => login_token_helper_)
             /\ registerCalls' = registerCalls
             /\ client_' = client_
             /\ callbackRuns' = callbackRuns)]_vars

\* C11: in every state in which the attempt, started once, is completed, no token helper
\* and no userinfo fetcher is held and none of their requests is in flight.
C11_HelpersReleasedWhenCompleted ==
    (SingleAttempt /\ Completed) =>
        /\ ~token_service_helper_
        /\ ~login_token_helper_
        /\ ~user_info_fetcher_
        /\ ~tokenRequest
        /\ ~userInfoRequest

\* C12: the userinfo lookup is started only in the step that handles a token
\* callback with a non-empty token, and Register is called only in the step
\* that handles a successful lookup; so Register follows a token callback
\* and a lookup success of the attempt, and never a lookup failure.
C12_StrictlySequential ==
    /\ []((SingleAttempt /\ registerCalls # << >>)
            => (/\ fetchedTokens # << >>
                /\ EmptyToken \notin Results(fetchedTokens)
                /\ userInfoResults # << >>
                /\ "failure" \notin Results(userInfoResults)))
    /\ []((SingleAttempt /\ lookupStarts > 0)
            => (fetchedTokens # << >> /\ EmptyToken \notin Results(fetchedTokens)))
    /\ [][/\ lookupStarts' # lookupStarts
             => (/\ Len(fetchedTokens') = Len(fetchedTokens) + 1
                 /\ fetchedTokens'[Len(fetchedTokens')] # EmptyToken
                 /\ fetchedTokens'[Len(fetchedTokens')] = oauth_access_token_')
          /\ registerCalls' # registerCalls
             => (/\ Len(userInfoResults') = Len(userInfoResults) + 1
                 /\ userInfoResults'[Len(userInfoResults')] # "failure")]_vars

C12_Witness ==
    /\ SingleAttempt
    /\ Len(registerCalls) = 1
    /\ Len(fetchedTokens) = 1
    /\ userInfoResults = <<"hd">>
    /\ registration_pending
    /\ startedWith = "login"

\* C13: in the step of an attempt started once that handles a successful
\* lookup which passes the gate
\* while the client is already registered, Register is not called, the
\* completion callback runs and the helper leaves the observers.
C13_AlreadyRegisteredCompletes ==
    [][(/\ Len(userInfoResults') > Len(userInfoResults)
        /\ LookupSucceededPastGate(userInfoResults')
        /\ SingleAttempt'
        /\ is_registered)
       => (/\ registerCalls' = registerCalls
           /\ callbackRuns' = callbackRuns + 1
           /\ Self \in observers
           /\ Self \notin observers'
           /\ ~crashed')]_vars

\* C14: within one attempt the token fetch is started exactly once, the
\* lookup at most once and Register is called at most once; after an empty
\* token no lookup exists, after a lookup failure no Register call, and no
\* callback is handled twice.
C14_NoRetries ==
    SingleAttempt =>
        /\ tokenFetchStarts = startCalls
        /\ Started <=> tokenFetchStarts = 1
        /\ lookupStarts <= 1
        /\ Len(registerCalls) <= 1
        /\ Len(fetchedTokens) <= tokenFetchStarts
        /\ Len(userInfoResults) <= lookupStarts
        /\ EmptyToken \in Results(fetchedTokens) => lookupStarts = 0
        /\ "failure" \in Results(userInfoResults) => registerCalls = << >>

C14_Witness ==
    /\ SingleAttempt
    /\ userInfoResults = <<"failure">>
    /\ lookupStarts = 1
    /\ tokenFetchStarts = 1
    /\ callbackRuns = 1
    /\ ~userInfoRequest
    /\ ~user_info_fetcher_

\* C15: in an attempt started once, every Register call carries the non-empty token this attempt's token
\* callback delivered and the registration type given to the constructor;
\* the registration type never changes and the cached token changes only in
\* the token callback.
C15_RegisterArguments ==
    /\ [](SingleAttempt => \A i \in 1..Len(registerCalls) :
             /\ fetchedTokens # << >>
             /\ registerCalls[i].token = fetchedTokens[Len(fetchedTokens)]
             /\ registerCalls[i].token # EmptyToken
             /\ registerCalls[i].type = registration_type_)
    /\ [][/\ registration_type_' = registration_type_
          /\ oauth_access_token_' # oauth_access_token_
             => (/\ Len(fetchedTokens') = Len(fetchedTokens) + 1
                 /\ oauth_access_token_' = fetchedTokens'[Len(fetchedTokens')])]_vars

C15_Witness ==
    /\ SingleAttempt
    /\ Len(registerCalls) = 1
    /\ Len(registerCalls[1].token) = MaxTokenLen
    /\ registerCalls[1].type = NumRegistrationTypes
    /\ fetchedTokens = <<registerCalls[1].token>>

\* C16: both token helpers hand the provider's token to the callback on
\* success and the empty string on failure; in an attempt started once, the
\* fetch of a live helper is answered by exactly one token callback; and what the token callback
\* does depends on the token alone, not on the entry point that started the
\* attempt.
C16_TokenStrategiesAgree ==
    /\ [](\A success \in BOOLEAN, t \in ProviderTokens :
             /\ TokenServiceHelperResult(success, t) =
                   (IF success THEN t ELSE EmptyToken)
             /\ LoginTokenHelperResult(success, t) =
                   TokenServiceHelperResult(success, t))
    /\ [](SingleAttempt =>
            /\ tokenRequest => fetchedTokens = << >>
            /\ (Started /\ alive /\ ~tokenRequest) => Len(fetchedTokens) = 1
            /\ Len(fetchedTokens) <= 1)
    /\ [][Len(fetchedTokens') > Len(fetchedTokens)
          => (/\ ~token_service_helper_'
              /\ ~login_token_helper_'
              /\ IF fetchedTokens'[Len(fetchedTokens')] = EmptyToken
                 THEN /\ lookupStarts' = lookupStarts
                      /\ user_info_fetcher_' = user_info_fetcher_
                      /\ oauth_access_token_' = oauth_access_token_
                      /\ client_' = NULL
                      /\ Self \notin observers'
                      /\ callbackRuns' = (IF client_ # NULL THEN callbackRuns + 1
                                                          ELSE callbackRuns)
                 ELSE /\ lookupStarts' = lookupStarts + 1
                      /\ user_info_fetcher_'
                      /\ userInfoRequest'
                      /\ oauth_access_token_' = fetchedTokens'[Len(fetchedTokens')]
                      /\ UNCHANGED <<client_, observers, callbackRuns>>)]_vars

C16_Witness ==
    /\ SingleAttempt
    /\ startedWith = "login"
    /\ fetchedTokens = <<EmptyToken>>
    /\ callbackRuns = 1
    /\ ~login_token_helper_
    /\ alive

\* C17: handling OnPolicyFetched changes nothing of the helper (members,
\* sub-helpers, cached token, client_), of its observer membership or of the
\* client, and does not run the completion callback; so a policy fetched
\* between Register and OnClientError leaves the callback to run once, at
\* the error.
C17_PolicyFetchedIgnored ==
    /\ [][policyFetchedSeen' # policyFetchedSeen
          => UNCHANGED <<helperVars, clientVars, netVars, callbackRuns,
                         completedCalls, fetchedTokens, userInfoResults,
                         tokenFetchStarts, startCalls, lookupStarts,
                         startedWith, crashed>>]_vars
    /\ []((policyFetchedSeen > 0 /\ registration_pending /\ client_ # NULL)
            => callbackRuns = 0)
    /\ [](callbackRuns <= 1)

C17_Witness ==
    /\ SingleAttempt
    /\ policyFetchedSeen = MaxPolicyFetched
    /\ Len(registerCalls) = 1
    /\ ~registration_pending
    /\ ~is_registered
    /\ callbackRuns = 1
    /\ completedCalls = 1

\* C18: whenever the client's registration-state notification reaches the
\* attached helper, the client is registered; the completion callback that
\* follows a successful Register runs with the client registered.
C18_StateChangeMeansRegistered ==
    [][(state_notify_pending /\ ~state_notify_pending' /\ Self \in observers)
       => (/\ is_registered
           /\ callbackRuns' = callbackRuns + 1
           /\ is_registered')]_vars

C18_Witness ==
    /\ SingleAttempt
    /\ Len(registerCalls) = 1
    /\ is_registered
    /\ ~state_notify_pending
    /\ callbackRuns = 1
    /\ completedCalls = 1
    /\ alive

\* C19: in an attempt started once, the step that handles a successful
\* lookup passing the gate, and so
\* reaches client_->is_registered(), finds client_ set (it is not
\* dereferenced after RequestCompleted cleared it).
C19_ClientSetAtRegisteredCheck ==
    [][(/\ Len(userInfoResults') > Len(userInfoResults)
        /\ LookupSucceededPastGate(userInfoResults')
        /\ SingleAttempt')
       => (client_ # NULL /\ ~crashed')]_vars

\* C20: a registration-state or error notification that reaches the helper
\* before it has called Register (token fetch or lookup still in flight)
\* completes the attempt in that step: the helper leaves the observers,
\* client_ is cleared and the completion callback runs.
C20_EarlyExitOnNotification ==
    [][(/\ Self \in observers
        /\ registerCalls = << >>
        /\ \/ (state_notify_pending /\ ~state_notify_pending')
           \/ (/\ completedCalls' # completedCalls
               /\ fetchedTokens' = fetchedTokens
               /\ userInfoResults' = userInfoResults))
       => (/\ tokenRequest \/ userInfoRequest
           /\ callbackRuns = 0
           /\ callbackRuns' = 1
           /\ client_' = NULL
           /\ Self \notin observers'
           /\ registerCalls' = << >>)]_vars

C20_Witness ==
    /\ SingleAttempt
    /\ callbackRuns = 1
    /\ completedCalls = 1
    /\ registerCalls = << >>
    /\ fetchedTokens # << >>
    /\ user_info_fetcher_
    /\ userInfoRequest
    /\ is_registered
    /\ ~state_notify_pending
    /\ Self \notin observers
    /\ alive

====
